---- MODULE Spec2Model ----
(***************************************************************************)
(* Device status ledger of the inventory database: the device tables, the  *)
(* purchase-order link table, the device and quantity transaction tables,  *)
(* the trigger functions that append to them and the fn_create_* functions *)
(* the triggers call.  One action is one SQL statement together with every *)
(* row-level trigger it fires; a statement whose trigger raises leaves the *)
(* database as it was.                                                     *)
(***************************************************************************)
EXTENDS Integers, Sequences, FiniteSets, TLC

\* SQL NULL.
NULL == "NULL"

\* ------------------------------------------------------------------ bounds
\* Device rows over both device tables.
MaxDevices == 2
\* Device ledger rows (both tables) that may exist when a statement starts.
MaxLedger == 3
\* purchase_order_devices rows.
MaxLinks == 2
\* Rows of parts and accessories together.
MaxItems == 1
\* The largest quantity of a part or accessory.
MaxQuantity == 2
\* Quantity ledger rows that may exist when a statement starts.
MaxQuantityLedger == 2
\* Key presses whose handleIdentifierScan may run at the same time.
MaxScans == 2
\* Entries of the list of scanned devices, those being added included.
MaxEntries == 3
\* Rows of sales_orders.
MaxOrders == 3

\* ------------------------------------------------------------------- types
device_status ==
  {"in_stock", "sold", "returned", "quarantine", "repair", "qc_required", "qc_failed"}

transaction_type ==
  {"purchase", "sale", "return_in", "return_out", "repair", "qc", "transfer"}

\* CHECK (qc_status IN ('pass', 'fail')); the column is nullable.
qc_status_check == {"pass", "fail"}

\* The two device tables, with their ledger tables.
Tables == {"cellular", "serial"}

\* The two quantity tables (parts, accessories), with their ledger tables.
Kinds == {"part", "accessory"}

\* public.users: id -> role.
users == [u1 |-> "user", a1 |-> "admin"]

\* A session is its auth.uid(): a user, or NULL for the service role.
Sessions == DOMAIN users \cup {NULL}

VARIABLES
  devices,              \* devices[t]: id -> row of cellular_devices / serial_devices
  device_transactions,  \* device_transactions[t]: rows of the ledger table, oldest first
  purchase_order_devices, \* set of link rows
  stock,                \* stock[k]: id -> quantity of a row of parts / accessories
  quantity_transactions, \* quantity_transactions[k]: rows of part_transactions /
                        \* accessory_transactions, oldest first
  last,                 \* the statement executed last, for stating the properties
  sales_order_devices,  \* set of link rows of sales orders
  transactions,         \* transactions[p]: the open transaction of connection p
  sales_orders,         \* set of rows of sales_orders
  tac_codes,            \* set of rows of tac_codes
  deviceEntries,        \* AddPurchaseOrderDevices: the list of scanned devices
  currentIdentifier,    \* AddPurchaseOrderDevices: the content of the scan field
  error,                \* AddPurchaseOrderDevices: the error shown, or NULL
  scans,                \* scans[k]: a running handleIdentifierScan, by key press
  handlers              \* handlers[c]: the submit handler running in client c

vars == <<devices, device_transactions, purchase_order_devices, stock,
          quantity_transactions, last, sales_order_devices, transactions,
          sales_orders, tac_codes, deviceEntries, currentIdentifier, error, scans,
          handlers>>

\* The scan field of AddPurchaseOrderDevices.
scan_vars == <<deviceEntries, currentIdentifier, error, scans>>

\* The state of the components of the web clients.
client_vars == <<scan_vars, handlers>>

\* The tables the submit handlers read before they write.
order_vars == <<sales_orders, tac_codes>>

other_vars == <<sales_order_devices, transactions, order_vars, client_vars>>
device_vars == <<devices, device_transactions, purchase_order_devices, other_vars>>
quantity_vars == <<stock, quantity_transactions>>

\* ---------------------------------------------------------- SQL expressions
\* a != b: true only when both are non-null and differ (NULL is not true).
sql_ne(a, b) == a # NULL /\ b # NULL /\ a # b

\* a || b: NULL when either side is NULL.
concat(a, b) == IF a = NULL \/ b = NULL THEN NULL ELSE a \o b

COALESCE(a, b) == IF a = NULL THEN b ELSE a

\* A primary key no row has yet: the n-th key handed out.
uuid_generate_v4(n) == "d" \o ToString(n + 1)

\* ------------------------------------------------------------ ledger tables
\* LedgerRow with the device and the acting user in each other's column.
LedgerRow_transposed(device_id, trans_type, ref_id, prev_status, new_status, notes, user_id) ==
  [device_id |-> user_id, transaction_type |-> trans_type, reference_id |-> ref_id,
   previous_status |-> prev_status, new_status |-> new_status, notes |-> notes,
   created_by |-> device_id]

\* A row of cellular_device_transactions / serial_device_transactions.
LedgerRow(device_id, trans_type, ref_id, prev_status, new_status, notes, user_id) ==
  [device_id |-> device_id, transaction_type |-> trans_type, reference_id |-> ref_id,
   previous_status |-> prev_status, new_status |-> new_status, notes |-> notes,
   created_by |-> user_id]

\* The NOT NULL columns of a device ledger table (previous_status is nullable).
device_transactions_not_null(r) ==
  /\ r.device_id # NULL
  /\ r.transaction_type # NULL
  /\ r.reference_id # NULL
  /\ r.new_status # NULL
  /\ r.created_by # NULL

\* The state of a running statement: the ledger rows it has inserted so far,
\* whether it is still running (ok) and whether an insert of it has failed.
\* An error discards the rows and ends the statement unless it is handled.
Running(rows) == [ok |-> TRUE, rows |-> rows, failed |-> FALSE]
Raised == [ok |-> FALSE, rows |-> <<>>, failed |-> TRUE]
\* A statement that ended with the violation of a constraint of its own table.
Violated == [ok |-> FALSE, rows |-> <<>>, failed |-> FALSE]

\* INSERT INTO <ledger table> VALUES (r).
InsertInto(acc, r) ==
  IF ~acc.ok THEN acc
  ELSE IF device_transactions_not_null(r) THEN [acc EXCEPT !.rows = Append(@, r)]
  ELSE Raised

\* ------------------------------------------------------- trigger functions
\* status_transaction_type with a returned device booked out instead of in.
status_transaction_type_return_out(status) ==
  CASE status = "sold" -> "sale"
    [] status = "returned" -> "return_out"
    [] status = "repair" -> "repair"
    [] status = "qc_required" -> "qc"
    [] OTHER -> "transfer"

\* CASE on new.status of a status change.
status_transaction_type(status) ==
  CASE status = "sold" -> "sale"
    [] status = "returned" -> "return_in"
    [] status = "repair" -> "repair"
    [] status = "qc_required" -> "qc"
    [] OTHER -> "transfer"

\* 'QC ' || new.qc_status || ': ' || COALESCE(new.qc_comments, '').
qc_note(new) ==
  concat(concat(concat("QC ", new.qc_status), ": "), COALESCE(new.qc_comments, ""))

\* The note of a status-change row.
status_note(new) ==
  CASE new.status = "qc_required" ->
         (IF new.qc_status # NULL THEN qc_note(new) ELSE "Pending QC")
    [] new.status = "repair" ->
         (IF new.repair_completed THEN "Repair completed" ELSE "Repair required")
    [] OTHER -> NULL

\* linked without its WHERE clause: any link row counts.
linked_to_any(t, id, pod) == pod # {}

\* EXISTS (SELECT 1 FROM purchase_order_devices WHERE <t>_device_id = id).
linked(t, id, pod) ==
  \E r \in pod : (IF t = "cellular" THEN r.cellular_device_id ELSE r.serial_device_id) = id

\* device_created_row with the initial status as previous status, as when
\* previous_status was NOT NULL.
device_created_row_with_previous(t, id, new, pod) ==
  LedgerRow(id, IF linked(t, id, pod) THEN "purchase" ELSE "transfer", id, new.status,
            new.status, "Device created", new.created_by)

\* The row of the INSERT branch.
device_created_row(t, id, new, pod) ==
  LedgerRow(id, IF linked(t, id, pod) THEN "purchase" ELSE "transfer", id, NULL,
            new.status, "Device created", new.created_by)

\* status_change_row with the two status columns in each other's place.
status_change_row_swapped(id, old, new) ==
  LedgerRow(id, status_transaction_type(new.status), id, new.status, old.status,
            status_note(new), new.updated_by)

\* The row of the status change.
status_change_row(id, old, new) ==
  LedgerRow(id, status_transaction_type(new.status), id, old.status, new.status,
            status_note(new), new.updated_by)

\* qc_status_changed as OLD.qc_status IS DISTINCT FROM NEW.qc_status.
qc_status_distinct(old, new) == old.qc_status # new.qc_status

\* The condition of the QC status change.
qc_status_changed(old, new) ==
  \/ old.qc_status = NULL /\ new.qc_status # NULL
  \/ old.qc_status # NULL /\ sql_ne(new.qc_status, old.qc_status)

\* qc_change_row with the QC value in the status columns.
qc_change_row_with_outcome(id, new) ==
  LedgerRow(id, "qc", id, new.qc_status, new.qc_status, qc_note(new), new.updated_by)

\* The row of the QC status change.
qc_change_row(id, new) ==
  LedgerRow(id, "qc", id, new.status, new.status, qc_note(new), new.updated_by)

\* repair_change_row with the note of the status change.
repair_change_row_required(id, new) ==
  LedgerRow(id, "repair", id, new.status, new.status,
            IF new.repair_completed THEN "Repair completed" ELSE "Repair required",
            new.updated_by)

\* The row of the repair status change.
repair_change_row(id, new) ==
  LedgerRow(id, "repair", id, new.status, new.status,
            IF new.repair_completed THEN "Repair completed" ELSE "Repair started",
            new.updated_by)

\* trg_device_transaction that refuses to put a sold device back in stock.
trg_device_transaction_guarded(TG_OP, t, id, old, new, pod, acc) ==
  IF TG_OP = "INSERT" THEN InsertInto(acc, device_created_row(t, id, new, pod))
  ELSE IF old.status = "sold" /\ new.status = "in_stock" THEN Raised
  ELSE
    LET a1 == IF old.status # new.status
              THEN InsertInto(acc, status_change_row(id, old, new))
              ELSE acc
        a2 == IF qc_status_changed(old, new)
              THEN InsertInto(a1, qc_change_row(id, new))
              ELSE a1
        a3 == IF old.repair_completed # new.repair_completed
              THEN InsertInto(a2, repair_change_row(id, new))
              ELSE a2
    IN a3

\* trg_cellular_device_transaction / trg_serial_device_transaction.
trg_device_transaction(TG_OP, t, id, old, new, pod, acc) ==
  IF TG_OP = "INSERT" THEN InsertInto(acc, device_created_row(t, id, new, pod))
  ELSE
    LET a1 == IF old.status # new.status
              THEN InsertInto(acc, status_change_row(id, old, new))
              ELSE acc
        a2 == IF qc_status_changed(old, new)
              THEN InsertInto(a1, qc_change_row(id, new))
              ELSE a1
        a3 == IF old.repair_completed # new.repair_completed
              THEN InsertInto(a2, repair_change_row(id, new))
              ELSE a2
    IN a3

\* fn_create_device_transaction that books a call without acting user on the
\* first user instead of raising.
fn_create_device_transaction_default_user(acc, device_id, trans_type, ref_id, prev_status, new_status, notes, user_id) ==
  IF ~acc.ok THEN acc
  ELSE IF device_id = NULL \/ trans_type = NULL \/ ref_id = NULL
  THEN Raised
  ELSE InsertInto(acc, LedgerRow(device_id, trans_type, ref_id, prev_status,
                                 new_status, notes, COALESCE(user_id, "u1")))

\* fn_create_cellular_transaction / fn_create_serial_transaction.
fn_create_device_transaction(acc, device_id, trans_type, ref_id, prev_status, new_status, notes, user_id) ==
  IF ~acc.ok THEN acc
  ELSE IF device_id = NULL \/ trans_type = NULL \/ ref_id = NULL \/ user_id = NULL
  THEN Raised
  ELSE InsertInto(acc, LedgerRow(device_id, trans_type, ref_id, prev_status,
                                 new_status, notes, user_id))

\* trg_device_status_change with an EXCEPTION WHEN OTHERS handler that returns
\* new: the error is swallowed and the UPDATE goes on without the row.
trg_device_status_change_handled(id, old, new, uid, acc) ==
  LET res == IF old.status # new.status
             THEN fn_create_device_transaction(acc, id,
                                               status_transaction_type(new.status), id,
                                               old.status, new.status, NULL, uid)
             ELSE acc
  IN IF res.ok THEN res ELSE [ok |-> TRUE, rows |-> acc.rows, failed |-> TRUE]

\* trg_cellular_device_status_change / trg_serial_device_status_change;
\* uid is auth.uid() of the session that runs the UPDATE.
trg_device_status_change(id, old, new, uid, acc) ==
  IF old.status # new.status
  THEN fn_create_device_transaction(acc, id, status_transaction_type(new.status), id,
                                    old.status, new.status, NULL, uid)
  ELSE acc

\* The table that still carries its trg_after_<t>_device_update trigger:
\* cellular_devices was dropped and recreated after the trigger was created,
\* which dropped the trigger with it; serial_devices never was.
has_status_change_trigger(t) == t = "serial"

\* The AFTER UPDATE row triggers of a device table, fired in name order:
\* trg_after_<t>_device_update, then trg_<t>_device_transaction.
after_update(t, id, old, new, uid, pod) ==
  LET a1 == IF has_status_change_trigger(t)
            THEN trg_device_status_change(id, old, new, uid, Running(<<>>))
            ELSE Running(<<>>)
  IN trg_device_transaction("UPDATE", t, id, old, new, pod, a1)

\* The AFTER INSERT row trigger of a device table.
after_insert(t, id, new, pod) ==
  trg_device_transaction("INSERT", t, id, new, new, pod, Running(<<>>))

\* --------------------------------------------------------------- policies
\* Row-level security of UPDATE on a device table: serial_devices keeps
\* "Admins can manage serial devices" (FOR ALL); the recreated
\* cellular_devices has SELECT and INSERT policies only.  The service role
\* bypasses row-level security.
can_update_device(t, uid) ==
  IF uid = NULL THEN TRUE ELSE t = "serial" /\ users[uid] = "admin"

\* ------------------------------------------------------------------ state
NoRow == [identifier |-> NULL, status |-> NULL, qc_status |-> NULL, qc_comments |-> NULL,
          repair_completed |-> FALSE, created_by |-> NULL, updated_by |-> NULL]

\* The record of a statement: what ran, on which row, with which outcome
\* ("committed", "rejected" when it raised), whether an insert of it failed,
\* the row before and after it (before an insert: no row, with the identifier
\* the insert names), and the tables as they were before it.
Statement(op, t, id, uid, res, old, new) ==
  [op |-> op, table |-> t, id |-> id, uid |-> uid,
   outcome |-> IF res.ok THEN "committed" ELSE "rejected", failed |-> res.failed,
   old |-> old, new |-> new,
   devices |-> devices, ledger |-> device_transactions,
   links |-> purchase_order_devices,
   stock |-> stock, quantity_ledger |-> quantity_transactions,
   sales_links |-> sales_order_devices, result |-> <<>>, orders |-> sales_orders]

AllIds == UNION {DOMAIN devices[t] : t \in Tables}

TotalLedger == Len(device_transactions["cellular"]) + Len(device_transactions["serial"])

\* NOW(), the start time of the current transaction, as logical time: the
\* number of ledger rows written before it.  All rows of one statement get
\* the same value.
NOW == TotalLedger + 1

\* created_at TIMESTAMPTZ DEFAULT NOW() of the rows a statement inserts.
created_at_default(rows, now) ==
  [i \in DOMAIN rows |-> [created_at |-> now] @@ rows[i]]

\* The database connections that run statements concurrently.
Connections == {"p1", "p2"}

Idle == [state |-> "idle"]

\* The web clients, each a signed-in user in a browser.
Clients == {"c1", "c2"}

\* No handler is running.
NoHandler == [pc |-> "none"]

Init ==
  /\ devices = [t \in Tables |-> <<>>]
  /\ device_transactions = [t \in Tables |-> <<>>]
  /\ purchase_order_devices = {}
  /\ stock = [k \in Kinds |-> <<>>]
  /\ quantity_transactions = [k \in Kinds |-> <<>>]
  /\ sales_order_devices = {}
  /\ transactions = [p \in Connections |-> Idle]
  /\ sales_orders = {}
  /\ tac_codes = {}
  /\ deviceEntries = <<>>
  /\ currentIdentifier = ""
  /\ error = NULL
  /\ scans = [k \in 1 .. MaxScans |-> NoHandler]
  /\ handlers = [c \in Clients |-> NoHandler]
  /\ last = Statement("none", NULL, NULL, NULL, Running(<<>>), NoRow, NoRow)

\* ---------------------------------------------------------------- actions
\* The users that create devices and link rows.
Creators == {"u1"}

\* The (qc_status, qc_comments) pairs an UPDATE may set.
QcInputs == {<<NULL, NULL>>, <<"pass", NULL>>, <<"fail", "ok">>}

\* The n-th 15-digit number.
identifier_of(n) == "00000000000000" \o ToString(n)

\* The 15-digit numbers among the identifiers of the model: one for each
\* device there can be.
Digits15 == {identifier_of(n) : n \in 1 .. MaxDevices}

\* CONSTRAINT imei_format CHECK (imei ~ '^[0-9]{15}$') of cellular_devices;
\* serial_number is free text.
imei_format(t, identifier) == t = "cellular" => identifier \in Digits15

\* unique_identifier for a column without its UNIQUE constraint.
unique_identifier_dropped(t, identifier) == TRUE

\* imei TEXT NOT NULL UNIQUE / serial_number TEXT NOT NULL UNIQUE.
unique_identifier(t, identifier) ==
  \A id \in DOMAIN devices[t] : devices[t][id].identifier # identifier

\* INSERT INTO <t>_devices (imei / serial_number, status, created_by,
\* updated_by) by an authenticated user; the id is a fresh uuid_generate_v4(),
\* the QC columns take their defaults.  The statement alone, without the
\* client that sends it.
InsertDeviceRow(t, uid, status, identifier) ==
  /\ Cardinality(AllIds) < MaxDevices
  /\ LET id == uuid_generate_v4(Cardinality(AllIds))
         new == [identifier |-> identifier, status |-> status, qc_status |-> NULL,
                 qc_comments |-> NULL, repair_completed |-> FALSE,
                 created_by |-> uid, updated_by |-> uid]
         res == IF imei_format(t, identifier) /\ unique_identifier(t, identifier)
                THEN after_insert(t, id, new, purchase_order_devices)
                ELSE Violated
     IN /\ devices' = IF res.ok
                      THEN [devices EXCEPT ![t] = (id :> new) @@ @]
                      ELSE devices
        /\ device_transactions' =
             [device_transactions EXCEPT ![t] = @ \o created_at_default(res.rows, NOW)]
        /\ last' = Statement("insert", t, id, uid, res,
                             [NoRow EXCEPT !.identifier = identifier],
                             IF res.ok THEN new ELSE NoRow)
  /\ UNCHANGED <<purchase_order_devices, quantity_vars, sales_order_devices,
                 transactions, order_vars>>

\* The INSERT sent for a device whose identifier no device has yet.
InsertDevice(t, uid, status) ==
  /\ InsertDeviceRow(t, uid, status, identifier_of(Cardinality(AllIds) + 1))
  /\ UNCHANGED client_vars

\* UPDATE <t>_devices SET status, qc_status, qc_comments, repair_completed
\* [, updated_by] WHERE id = id, by a session the UPDATE policy lets through.
\* An authenticated session sets updated_by to its user, as the application
\* does; the service role leaves it.  The statement alone, without the client
\* that sends it.
UpdateDeviceRow(t, id, uid, status, qc, repair_completed) ==
  /\ id \in DOMAIN devices[t]
  /\ TotalLedger < MaxLedger
  /\ can_update_device(t, uid)
  /\ LET old == devices[t][id]
         new == [old EXCEPT !.status = status, !.qc_status = qc[1],
                            !.qc_comments = qc[2],
                            !.repair_completed = repair_completed,
                            !.updated_by = IF uid = NULL THEN @ ELSE uid]
         res == after_update(t, id, old, new, uid, purchase_order_devices)
     IN /\ devices' = IF res.ok THEN [devices EXCEPT ![t][id] = new] ELSE devices
        /\ device_transactions' =
             [device_transactions EXCEPT ![t] = @ \o created_at_default(res.rows, NOW)]
        /\ last' = Statement("update", t, id, uid, res,
                             old, IF res.ok THEN new ELSE old)
  /\ UNCHANGED <<purchase_order_devices, quantity_vars, sales_order_devices,
                 transactions, order_vars>>

\* The UPDATE sent on its own.
UpdateDevice(t, id, uid, status, qc, repair_completed) ==
  /\ UpdateDeviceRow(t, id, uid, status, qc, repair_completed)
  /\ UNCHANGED client_vars

\* The same UPDATE by a session the policy filters out: no row is updated,
\* no trigger fires and no error is reported.
UpdateDeviceFiltered(t, id, uid) ==
  /\ id \in DOMAIN devices[t]
  /\ ~can_update_device(t, uid)
  /\ UNCHANGED vars

\* one_device_type that only asks for a device.
one_device_type_some(r) == r.cellular_device_id # NULL \/ r.serial_device_id # NULL

\* CONSTRAINT one_device_type of purchase_order_devices / sales_order_devices.
one_device_type(r) ==
  \/ r.cellular_device_id # NULL /\ r.serial_device_id = NULL
  \/ r.cellular_device_id = NULL /\ r.serial_device_id # NULL

\* cellular_device_id REFERENCES cellular_devices(id),
\* serial_device_id REFERENCES serial_devices(id).
purchase_order_devices_fkey(r, devs) ==
  /\ r.cellular_device_id = NULL \/ r.cellular_device_id \in DOMAIN devs["cellular"]
  /\ r.serial_device_id = NULL \/ r.serial_device_id \in DOMAIN devs["serial"]

\* INSERT INTO purchase_order_devices by an authenticated user: the statement
\* alone, without the client that sends it.
InsertPurchaseOrderDeviceRow(uid, cell, ser) ==
  /\ Cardinality(purchase_order_devices) < MaxLinks
  /\ LET r == [id |-> "l" \o ToString(Cardinality(purchase_order_devices) + 1),
               purchase_order_id |-> "po1",
               cellular_device_id |-> cell, serial_device_id |-> ser]
         ok == one_device_type(r) /\ purchase_order_devices_fkey(r, devices)
     IN /\ purchase_order_devices' =
             IF ok THEN purchase_order_devices \cup {r} ELSE purchase_order_devices
        /\ last' = Statement("link", NULL, r.id, uid,
                             IF ok THEN Running(<<>>) ELSE Raised, NoRow, NoRow)
  /\ UNCHANGED <<devices, device_transactions, quantity_vars, sales_order_devices,
                 transactions, order_vars>>

\* The INSERT sent on its own.
InsertPurchaseOrderDevice(uid, cell, ser) ==
  /\ InsertPurchaseOrderDeviceRow(uid, cell, ser)
  /\ UNCHANGED client_vars

\* INSERT INTO sales_order_devices of one row by an authenticated user; the
\* foreign keys are those of purchase_order_devices.
InsertSalesOrderDevice(uid, cell, ser) ==
  /\ Cardinality(sales_order_devices) < MaxLinks
  /\ LET r == [id |-> "s" \o ToString(Cardinality(sales_order_devices) + 1),
               sales_order_id |-> "so1",
               cellular_device_id |-> cell, serial_device_id |-> ser,
               created_by |-> uid, updated_by |-> uid]
         ok == one_device_type(r) /\ purchase_order_devices_fkey(r, devices)
     IN /\ sales_order_devices' =
             IF ok THEN sales_order_devices \cup {r} ELSE sales_order_devices
        /\ last' = Statement("sales_link", NULL, r.id, uid,
                             IF ok THEN Running(<<>>) ELSE Raised, NoRow, NoRow)
  /\ UNCHANGED <<devices, device_transactions, purchase_order_devices, quantity_vars,
                 transactions, order_vars, client_vars>>

Next ==
  \/ \E t \in Tables, uid \in Creators, status \in device_status :
       InsertDevice(t, uid, status)
  \/ \E t \in Tables, id \in AllIds, uid \in Sessions, status \in device_status,
        qc \in QcInputs, rep \in BOOLEAN :
       UpdateDevice(t, id, uid, status, qc, rep)
  \/ \E t \in Tables, id \in AllIds, uid \in Sessions :
       UpdateDeviceFiltered(t, id, uid)

\* Device inserts and updates with their triggers.
Spec == Init /\ [][Next]_vars

LinkNext ==
  \/ \E t \in Tables, uid \in Creators, status \in device_status :
       InsertDevice(t, uid, status)
  \/ \E uid \in Creators, cell \in DOMAIN devices["cellular"] \cup {NULL},
        ser \in DOMAIN devices["serial"] \cup {NULL} :
       InsertPurchaseOrderDevice(uid, cell, ser)
  \/ \E uid \in Creators, cell \in DOMAIN devices["cellular"] \cup {NULL},
        ser \in DOMAIN devices["serial"] \cup {NULL} :
       InsertSalesOrderDevice(uid, cell, ser)

\* Device creation and the linking of devices to purchase and sales orders.
LinkSpec == Init /\ [][LinkNext]_vars

\* -------------------------------------------------------- quantity ledger
ABS(n) == IF n < 0 THEN -n ELSE n

QuantityRow(item_id, trans_type, ref_id, qty, prev_qty, new_qty, notes, user_id) ==
  [item_id |-> item_id, transaction_type |-> trans_type, reference_id |-> ref_id,
   quantity |-> qty, previous_quantity |-> prev_qty, new_quantity |-> new_qty,
   notes |-> notes, created_by |-> user_id]

\* CONSTRAINT valid_quantities of part_transactions / accessory_transactions.
valid_quantities(r) ==
  /\ r.previous_quantity >= 0
  /\ r.new_quantity >= 0
  /\ ABS(r.new_quantity - r.previous_quantity) = ABS(r.quantity)

\* The NOT NULL columns of a quantity ledger table that a call can leave NULL.
quantity_transactions_not_null(r) ==
  /\ r.item_id # NULL
  /\ r.transaction_type # NULL
  /\ r.reference_id # NULL
  /\ r.created_by # NULL

\* INSERT INTO part_transactions / accessory_transactions VALUES (r).
InsertIntoQuantity(acc, r) ==
  IF ~acc.ok THEN acc
  ELSE IF quantity_transactions_not_null(r) /\ valid_quantities(r)
  THEN [acc EXCEPT !.rows = Append(@, r)]
  ELSE Raised

\* fn_create_quantity_transaction that records the actual difference instead
\* of raising 'Quantity change mismatch'.
fn_create_quantity_transaction_lenient(acc, item_id, trans_type, ref_id, qty, prev_qty, new_qty, notes, user_id) ==
  IF ~acc.ok THEN acc
  ELSE IF item_id = NULL \/ trans_type = NULL \/ ref_id = NULL \/ user_id = NULL
  THEN Raised
  ELSE IF new_qty < 0 THEN Raised
  ELSE InsertIntoQuantity(acc, QuantityRow(item_id, trans_type, ref_id,
                                           ABS(new_qty - prev_qty), prev_qty, new_qty,
                                           notes, user_id))

\* fn_create_part_transaction / fn_create_accessory_transaction.
fn_create_quantity_transaction(acc, item_id, trans_type, ref_id, qty, prev_qty, new_qty, notes, user_id) ==
  IF ~acc.ok THEN acc
  ELSE IF item_id = NULL \/ trans_type = NULL \/ ref_id = NULL \/ user_id = NULL
  THEN Raised
  ELSE IF new_qty < 0 THEN Raised
  ELSE IF ABS(new_qty - prev_qty) # ABS(qty) THEN Raised
  ELSE InsertIntoQuantity(acc, QuantityRow(item_id, trans_type, ref_id, qty, prev_qty,
                                           new_qty, notes, user_id))

\* trg_quantity_change that passes the signed difference as quantity.
trg_quantity_change_signed(id, old_quantity, new_quantity, uid) ==
  IF old_quantity # new_quantity
  THEN fn_create_quantity_transaction(
         Running(<<>>), id,
         IF new_quantity > old_quantity THEN "purchase" ELSE "sale",
         id, new_quantity - old_quantity, old_quantity, new_quantity, NULL, uid)
  ELSE Running(<<>>)

\* trg_part_quantity_change / trg_accessory_quantity_change, the AFTER UPDATE
\* OF quantity row trigger; uid is auth.uid().
trg_quantity_change(id, old_quantity, new_quantity, uid) ==
  IF old_quantity # new_quantity
  THEN fn_create_quantity_transaction(
         Running(<<>>), id,
         IF new_quantity > old_quantity THEN "purchase" ELSE "sale",
         id, ABS(new_quantity - old_quantity), old_quantity, new_quantity, NULL, uid)
  ELSE Running(<<>>)

\* CONSTRAINT positive_quantity of parts / accessories.
positive_quantity(quantity) == quantity >= 0

\* "Admins can manage parts" / "Admins can manage accessories" (FOR ALL);
\* the service role bypasses row-level security.
can_manage_stock(uid) == IF uid = NULL THEN TRUE ELSE users[uid] = "admin"

AllItems == UNION {DOMAIN stock[k] : k \in Kinds}

TotalQuantityLedger ==
  Len(quantity_transactions["part"]) + Len(quantity_transactions["accessory"])

\* The quantities a statement may name: one below zero to MaxQuantity.
Quantities == -1 .. MaxQuantity

\* INSERT INTO parts / accessories by an admin; no trigger fires on INSERT.
InsertItem(k, uid, quantity) ==
  /\ Cardinality(AllItems) < MaxItems
  /\ can_manage_stock(uid)
  /\ LET id == "i" \o ToString(Cardinality(AllItems) + 1)
         ok == positive_quantity(quantity)
     IN /\ stock' = IF ok THEN [stock EXCEPT ![k] = (id :> quantity) @@ @] ELSE stock
        /\ last' = Statement("insert_item", k, id, uid,
                             IF ok THEN Running(<<>>) ELSE Raised, NoRow, NoRow)
  /\ UNCHANGED <<device_vars, quantity_transactions>>

\* UPDATE parts / accessories SET quantity = quantity WHERE id = id.
UpdateItem(k, id, uid, quantity) ==
  /\ id \in DOMAIN stock[k]
  /\ TotalQuantityLedger < MaxQuantityLedger
  /\ can_manage_stock(uid)
  /\ LET res == IF positive_quantity(quantity)
                THEN trg_quantity_change(id, stock[k][id], quantity, uid)
                ELSE Raised
     IN /\ stock' = IF res.ok THEN [stock EXCEPT ![k][id] = quantity] ELSE stock
        /\ quantity_transactions' = [quantity_transactions EXCEPT ![k] = @ \o res.rows]
        /\ last' = Statement("update_item", k, id, uid, res, NoRow, NoRow)
  /\ UNCHANGED device_vars

\* part_id REFERENCES parts(id) / accessory_id REFERENCES accessories(id).
quantity_transactions_fkey(k, item_id) == item_id \in DOMAIN stock[k]

\* The required arguments of a call that were given as NULL.
NullArguments(id, trans_type, ref_id, user_id) ==
  [nulls |-> {a[1] : a \in {b \in {<<"id", id>>, <<"trans_type", trans_type>>,
                                   <<"ref_id", ref_id>>, <<"user_id", user_id>>} :
                            b[2] = NULL}}]

\* The quantity arguments of a call, recorded when it committed.
NoCall == [qty |-> 0, prev_qty |-> 0, new_qty |-> 0]

\* select fn_create_part_transaction(...) / fn_create_accessory_transaction(...)
\* by a session of the database API: the functions are SECURITY DEFINER and
\* executable by every role.
CallCreateQuantityTransaction(k, uid, item_id, trans_type, ref_id, qty, prev_qty, new_qty, user_id) ==
  /\ TotalQuantityLedger < MaxQuantityLedger
  /\ LET res0 == fn_create_quantity_transaction(Running(<<>>), item_id, trans_type,
                                                ref_id, qty, prev_qty, new_qty, NULL,
                                                user_id)
         res == IF res0.ok /\ ~quantity_transactions_fkey(k, item_id) THEN Raised
                ELSE res0
     IN /\ quantity_transactions' = [quantity_transactions EXCEPT ![k] = @ \o res.rows]
        /\ last' = Statement("call_quantity", k, item_id, uid, res,
                             NullArguments(item_id, trans_type, ref_id, user_id),
                             IF res.ok
                             THEN [qty |-> qty, prev_qty |-> prev_qty, new_qty |-> new_qty]
                             ELSE NoCall)
  /\ UNCHANGED <<device_vars, stock>>

\* The (id, transaction type, reference id, user id) arguments of a call by
\* user u1: all given, or one of them NULL.
CallArguments(id) ==
  {<<id, "purchase", id, "u1">>, <<NULL, "purchase", id, "u1">>,
   <<id, NULL, id, "u1">>, <<id, "purchase", NULL, "u1">>,
   <<id, "purchase", id, NULL>>}

QuantityNext ==
  \/ \E k \in Kinds, uid \in Sessions, q \in Quantities : InsertItem(k, uid, q)
  \/ \E k \in Kinds, id \in AllItems, uid \in Sessions, q \in Quantities :
       UpdateItem(k, id, uid, q)
  \/ \E k \in Kinds, item_id \in AllItems, qty \in -MaxQuantity .. MaxQuantity,
        prev_qty \in Quantities, new_qty \in Quantities :
       \E a \in CallArguments(item_id) :
         CallCreateQuantityTransaction(k, "u1", a[1], a[2], a[3], qty, prev_qty,
                                       new_qty, a[4])

\* Parts and accessories with their quantity ledgers.
QuantitySpec == Init /\ [][QuantityNext]_vars

\* ----------------------------------------------------------- database API
\* The row-level security policies of cellular_device_transactions and
\* serial_device_transactions for the role authenticated: "Users can read
\* transactions" (SELECT USING true) and "System only transactions"
\* (INSERT WITH CHECK false); none for UPDATE or DELETE.
device_transactions_policies ==
  {[cmd |-> "SELECT", qual |-> TRUE], [cmd |-> "INSERT", qual |-> FALSE]}

\* policy_allows under a FOR ALL USING (true) policy.
policy_allows_all(cmd) == TRUE

\* Whether a statement of an authenticated user passes the policies.
policy_allows(cmd) ==
  \E p \in device_transactions_policies : p.cmd = cmd /\ p.qual

\* device_id REFERENCES serial_devices(id); the constraint of
\* cellular_device_transactions went with DROP TABLE cellular_devices CASCADE.
device_transactions_fkey(t, device_id) ==
  t = "cellular" \/ device_id \in DOMAIN devices[t]

\* A row as a user would write it directly.
UserRow(t, uid) ==
  [created_at |-> NOW] @@
  LedgerRow(uuid_generate_v4(0), "transfer", uuid_generate_v4(0), NULL, "in_stock",
            "written by hand", uid)

\* An INSERT, UPDATE or DELETE of an authenticated user on a device ledger
\* table, naming its i-th row: it takes effect only where a policy allows it.
UserWriteDeviceTransactions(t, uid, cmd, i) ==
  /\ i \in 1 .. Len(device_transactions[t])
  /\ device_transactions' =
       IF ~policy_allows(cmd) THEN device_transactions
       ELSE [device_transactions EXCEPT ![t] =
               CASE cmd = "INSERT" -> Append(@, UserRow(t, uid))
                 [] cmd = "UPDATE" -> [@ EXCEPT ![i].notes = "edited"]
                 [] OTHER -> SubSeq(@, 1, i - 1) \o SubSeq(@, i + 1, Len(@))]
  /\ UNCHANGED <<devices, purchase_order_devices, quantity_vars, last, other_vars>>

\* select fn_create_cellular_transaction(...) / fn_create_serial_transaction(...)
\* by a session of the database API: the functions are SECURITY DEFINER and
\* executable by every role.
CallCreateDeviceTransaction(t, uid, device_id, trans_type, ref_id, prev_status, new_status, user_id) ==
  /\ TotalLedger < MaxLedger
  /\ LET res0 == fn_create_device_transaction(Running(<<>>), device_id, trans_type,
                                              ref_id, prev_status, new_status, NULL,
                                              user_id)
         res == IF res0.ok /\ ~device_transactions_fkey(t, device_id) THEN Raised
                ELSE res0
     IN /\ device_transactions' =
             [device_transactions EXCEPT ![t] = @ \o created_at_default(res.rows, NOW)]
        /\ last' = Statement("call", t, device_id, uid, res,
                             NullArguments(device_id, trans_type, ref_id, user_id),
                             NoRow)
  /\ UNCHANGED <<devices, purchase_order_devices, quantity_vars, other_vars>>

ApiNext ==
  \/ \E t \in Tables, uid \in Creators, status \in device_status :
       InsertDevice(t, uid, status)
  \/ \E t \in Tables, id \in AllIds, uid \in Sessions, status \in device_status,
        qc \in QcInputs, rep \in BOOLEAN :
       UpdateDevice(t, id, uid, status, qc, rep)
  \/ \E t \in Tables, uid \in Creators, cmd \in {"INSERT", "UPDATE", "DELETE"} :
       \E i \in DOMAIN device_transactions[t] :
         UserWriteDeviceTransactions(t, uid, cmd, i)
  \/ \E t \in Tables, id \in AllIds, prev_status \in {NULL, "in_stock"} :
       \E a \in CallArguments(id) :
         CallCreateDeviceTransaction(t, "u1", a[1], a[2], a[3], prev_status, "sold",
                                     a[4])

\* Device statements together with what a user can do through the database
\* API: statements on the ledger tables and calls of the ledger functions.
ApiSpec == Init /\ [][ApiNext]_vars

\* The ledger functions called directly and through the status and quantity
\* triggers, by users and by the service role.
FunctionNext ==
  \/ \E t \in Tables : InsertDevice(t, "u1", "in_stock")
  \/ \E t \in Tables, id \in AllIds, uid \in Sessions, status \in {"in_stock", "sold"} :
       UpdateDevice(t, id, uid, status, <<NULL, NULL>>, FALSE)
  \/ \E t \in Tables, id \in AllIds :
       \E a \in CallArguments(id) :
         CallCreateDeviceTransaction(t, "u1", a[1], a[2], a[3], NULL, "sold", a[4])
  \/ \E k \in Kinds : InsertItem(k, "a1", 1)
  \/ \E k \in Kinds, id \in AllItems, uid \in {"a1", NULL}, q \in 1 .. MaxQuantity :
       UpdateItem(k, id, uid, q)
  \/ \E k \in Kinds, item_id \in AllItems :
       \E a \in CallArguments(item_id) :
         CallCreateQuantityTransaction(k, "u1", a[1], a[2], a[3], 1, 1, 2, a[4])

FunctionSpec == Init /\ [][FunctionNext]_vars

\* ------------------------------------------------------------ concurrency
\* row_locked for a database that takes no row locks.
row_never_locked(t, id, txns) == FALSE

\* Whether an open transaction holds the lock of row id of table t: an
\* UPDATE locks the row it changes until its transaction ends.
row_locked(t, id, txns) ==
  \E p \in Connections :
    txns[p].state = "open" /\ txns[p].table = t /\ txns[p].id = id

\* The ledger rows of open transactions, not yet visible.
PendingRows ==
  LET n(p) == IF transactions[p].state = "open" THEN Len(transactions[p].rows) ELSE 0
  IN n("p1") + n("p2")

\* A client sends UPDATE <t>_devices SET ... WHERE id = id on connection p;
\* seen is the row as it is when the request is sent.
IssueUpdate(p, t, id, uid, status, qc, repair_completed) ==
  /\ transactions[p].state \in {"idle", "committed"}
  /\ id \in DOMAIN devices[t]
  /\ TotalLedger + PendingRows < MaxLedger
  /\ can_update_device(t, uid)
  /\ transactions' = [transactions EXCEPT ![p] =
       [state |-> "issued", table |-> t, id |-> id, uid |-> uid, status |-> status,
        qc |-> qc, repair_completed |-> repair_completed, seen |-> devices[t][id]]]
  /\ UNCHANGED <<devices, device_transactions, purchase_order_devices, quantity_vars,
                 last, sales_order_devices, order_vars, client_vars>>

\* The UPDATE of connection p runs once the row is not locked: it locks the
\* row, takes the latest committed row as OLD and fires the row triggers.
\* An error in a trigger rolls the transaction back.
ExecuteUpdate(p) ==
  /\ transactions[p].state = "issued"
  /\ ~row_locked(transactions[p].table, transactions[p].id, transactions)
  /\ LET tx == transactions[p]
         old == devices[tx.table][tx.id]
         new == [old EXCEPT !.status = tx.status, !.qc_status = tx.qc[1],
                            !.qc_comments = tx.qc[2],
                            !.repair_completed = tx.repair_completed,
                            !.updated_by = IF tx.uid = NULL THEN @ ELSE tx.uid]
         res == after_update(tx.table, tx.id, old, new, tx.uid, purchase_order_devices)
     IN IF res.ok
        THEN /\ transactions' = [transactions EXCEPT ![p] =
                  [state |-> "open", table |-> tx.table, id |-> tx.id, uid |-> tx.uid,
                   seen |-> tx.seen, old |-> old, new |-> new,
                   rows |-> created_at_default(res.rows, NOW)]]
             /\ UNCHANGED last
        ELSE /\ transactions' = [transactions EXCEPT ![p] = Idle]
             /\ last' = Statement("update", tx.table, tx.id, tx.uid, res, old, old)
  /\ UNCHANGED <<devices, device_transactions, purchase_order_devices, quantity_vars,
                 sales_order_devices, order_vars, client_vars>>

\* COMMIT of the transaction of connection p: its row version and its ledger
\* rows become visible and the row lock is released.
CommitUpdate(p) ==
  /\ transactions[p].state = "open"
  /\ LET tx == transactions[p]
     IN /\ devices' = [devices EXCEPT ![tx.table][tx.id] = tx.new]
        /\ device_transactions' = [device_transactions EXCEPT ![tx.table] = @ \o tx.rows]
        /\ last' = Statement("update", tx.table, tx.id, tx.uid, Running(tx.rows),
                             tx.old, tx.new)
        /\ transactions' = [transactions EXCEPT ![p] = [tx EXCEPT !.state = "committed"]]
  /\ UNCHANGED <<purchase_order_devices, quantity_vars, sales_order_devices, order_vars,
                 client_vars>>

ConcurrentNext ==
  \/ \E t \in Tables : InsertDevice(t, "u1", "in_stock")
  \/ \E p \in Connections, t \in Tables, id \in AllIds, uid \in {"a1", NULL},
        status \in {"sold", "returned"}, qc \in {<<NULL, NULL>>, <<"pass", NULL>>} :
       IssueUpdate(p, t, id, uid, status, qc, FALSE)
  \/ \E p \in Connections : ExecuteUpdate(p)
  \/ \E p \in Connections : CommitUpdate(p)

\* Updates sent on two connections at once.
ConcurrentSpec == Init /\ [][ConcurrentNext]_vars

\* ----------------------------------------------------------- device history
\* users.full_name.
full_name == [u1 |-> "User One", a1 |-> "Admin One"]

\* "Users can read own profile": USING (auth.uid() = id), the only SELECT
\* policy of users.
users_select_policy(uid, id) == uid = id

\* user:users!created_by(full_name): the embedded row as a set, empty for
\* null when the reader cannot see the row.
embedded_user(uid, created_by) ==
  IF users_select_policy(uid, created_by)
  THEN {[full_name |-> full_name[created_by]]}
  ELSE {}

\* entry.transaction_type.replace('_', ' ').
replace_underscore(kind) ==
  CASE kind = "return_in" -> "return in"
    [] kind = "return_out" -> "return out"
    [] OTHER -> kind

\* A value inside a template literal.
template(v) == IF v = NULL THEN "null" ELSE v

\* The history entry of the row at position i of the ledger of table t.
history_entry(t, i, uid) ==
  LET entry == device_transactions[t][i]
  IN [id |-> i, date |-> entry.created_at,
      operation |-> replace_underscore(entry.transaction_type) \o " ("
                    \o template(entry.previous_status) \o " -> "
                    \o template(entry.new_status) \o ")",
      user |-> embedded_user(uid, entry.created_by),
      details |-> entry.notes]

\* The positions of the ledger rows of device id in table t.
rows_of_device(t, id) ==
  {i \in DOMAIN device_transactions[t] : device_transactions[t][i].device_id = id}

\* .order('created_at', { ascending: false }): the orders the database may
\* return the rows at positions sel in; rows with equal created_at come in
\* any order.
RECURSIVE order_created_at_descending(_, _)
order_created_at_descending(t, sel) ==
  IF sel = {} THEN {<<>>}
  ELSE LET newest == {i \in sel : \A j \in sel :
                        device_transactions[t][i].created_at
                          >= device_transactions[t][j].created_at}
       IN UNION {{<<i>> \o rest : rest \in order_created_at_descending(t, sel \ {i})} :
                 i \in newest}

\* DeviceDetails.loadDeviceHistory for device id of table t in the session
\* of user uid; the entries set with setHistory are the statement's result.
loadDeviceHistory(t, id, uid) ==
  /\ id \in DOMAIN devices[t]
  /\ \E o \in order_created_at_descending(t, rows_of_device(t, id)) :
       last' = [Statement("history", t, id, uid, Running(<<>>), NoRow, NoRow)
                  EXCEPT !.result = [i \in DOMAIN o |-> history_entry(t, o[i], uid)]]
  /\ UNCHANGED <<devices, device_transactions, purchase_order_devices, quantity_vars,
                 other_vars>>

HistoryNext ==
  \/ \E t \in Tables, status \in {"in_stock", "qc_required"} :
       InsertDevice(t, "u1", status)
  \/ \E t \in Tables, id \in AllIds, uid \in {"a1", NULL},
        status \in {"in_stock", "qc_required", "repair"},
        qc \in {<<NULL, NULL>>, <<"pass", NULL>>}, rep \in BOOLEAN :
       UpdateDevice(t, id, uid, status, qc, rep)
  \/ \E t \in Tables, id \in AllIds, uid \in DOMAIN users : loadDeviceHistory(t, id, uid)

\* Device changes and the history view of a device.
HistorySpec == Init /\ [][HistoryNext]_vars

\* ------------------------------------------------ AddPurchaseOrderDevices
\* What may be typed or scanned into the IMEI field.
Identifiers == Digits15 \cup {"12"}

\* /^\d{15}$/.test(identifier).
is_15_digits(identifier) == identifier \in Digits15

\* deviceEntries.some(d => d.identifier === identifier).
some_entry(entries, identifier) ==
  \E i \in DOMAIN entries : entries[i].identifier = identifier

\* checkDeviceExists(identifier, type): the SELECT policy of both device
\* tables lets every authenticated user read every row.
checkDeviceExists(identifier, t) ==
  \E id \in DOMAIN devices[t] : devices[t][id].identifier = identifier

\* The handlers of key presses that have not returned yet.
RunningScans == {k \in DOMAIN scans : scans[k].pc \notin {"none", "done"}}

\* A scan that returned: what it was for, whether the list held its IMEI
\* when it returned, whether it appended an entry and the error it set.
ScanDone(scan, appended, message) ==
  [pc |-> "done", identifier |-> scan.identifier,
   listed |-> some_entry(deviceEntries, scan.identifier),
   appended |-> appended, message |-> message]

\* onChange of the IMEI field: setCurrentIdentifier(e.target.value).
setCurrentIdentifier(value) ==
  /\ currentIdentifier # value
  /\ currentIdentifier' = value
  /\ UNCHANGED <<devices, device_transactions, purchase_order_devices, quantity_vars,
                 last, sales_order_devices, transactions, order_vars, deviceEntries,
                 error, scans, handlers>>

\* removeDevice(identifier): the entries with that identifier leave the list.
removeDevice(identifier) ==
  /\ some_entry(deviceEntries, identifier)
  /\ deviceEntries' = SelectSeq(deviceEntries, LAMBDA d : d.identifier # identifier)
  /\ UNCHANGED <<devices, device_transactions, purchase_order_devices, quantity_vars,
                 last, sales_order_devices, transactions, order_vars,
                 currentIdentifier, error, scans, handlers>>

\* handleIdentifierScan on the Enter key, up to its first await: the handler
\* is the one of the latest render, so it holds the identifier and the list
\* of entries as they are now, and keeps them until it returns.
handleIdentifierScan(k) ==
  /\ scans[k].pc \in {"none", "done"}
  /\ currentIdentifier # ""
  /\ Len(deviceEntries) + Cardinality(RunningScans) < MaxEntries
  /\ IF ~is_15_digits(currentIdentifier)
     THEN /\ error' = "IMEI must be exactly 15 digits"
          /\ scans' = [scans EXCEPT ![k] =
               ScanDone([identifier |-> currentIdentifier], FALSE, error')]
     ELSE /\ scans' = [scans EXCEPT ![k] =
               [pc |-> "checkDeviceExists", identifier |-> currentIdentifier,
                deviceEntries |-> deviceEntries]]
          /\ UNCHANGED error
  /\ UNCHANGED <<devices, device_transactions, purchase_order_devices, quantity_vars,
                 last, sales_order_devices, transactions, order_vars, deviceEntries,
                 currentIdentifier, handlers>>

\* await checkDeviceExists(currentIdentifier, 'cellular') returns.
ScanDeviceChecked(k) ==
  /\ scans[k].pc = "checkDeviceExists"
  /\ IF checkDeviceExists(scans[k].identifier, "cellular")
     THEN /\ error' = "Device with this IMEI already exists in the system"
          /\ scans' = [scans EXCEPT ![k] = ScanDone(scans[k], FALSE, error')]
     ELSE /\ scans' = [scans EXCEPT ![k].pc = "fetchIMEIData"]
          /\ UNCHANGED error
  /\ UNCHANGED <<devices, device_transactions, purchase_order_devices, quantity_vars,
                 last, sales_order_devices, transactions, order_vars, deviceEntries,
                 currentIdentifier, handlers>>

\* await fetchIMEIData(currentIdentifier) returns: the lookup service knows
\* the IMEI (status 'succes') or it does not.
ScanIMEIFetched(k, succes) ==
  /\ scans[k].pc = "fetchIMEIData"
  /\ IF succes
     THEN /\ scans' = [scans EXCEPT ![k].pc = "loadDeviceConfig"]
          /\ UNCHANGED error
     ELSE /\ error' = "Invalid IMEI or device not found"
          /\ scans' = [scans EXCEPT ![k] = ScanDone(scans[k], FALSE, error')]
  /\ UNCHANGED <<devices, device_transactions, purchase_order_devices, quantity_vars,
                 last, sales_order_devices, transactions, order_vars, deviceEntries,
                 currentIdentifier, handlers>>

\* await loadDeviceConfig(...) returns and the handler runs to its end: the
\* duplicate check reads the list the handler holds, the append goes to the
\* list as it is now (setDeviceEntries(prev => [...prev, newDevice])).
ScanConfigLoaded(k) ==
  /\ scans[k].pc = "loadDeviceConfig"
  /\ IF ~some_entry(scans[k].deviceEntries, scans[k].identifier)
     THEN /\ deviceEntries' =
               Append(deviceEntries, [identifier |-> scans[k].identifier,
                                      type |-> "cellular"])
          /\ currentIdentifier' = ""
          /\ error' = NULL
          /\ scans' = [scans EXCEPT ![k] = ScanDone(scans[k], TRUE, NULL)]
     ELSE /\ error' = "This IMEI has already been added to the list"
          /\ scans' = [scans EXCEPT ![k] = ScanDone(scans[k], FALSE, error')]
          /\ UNCHANGED <<deviceEntries, currentIdentifier>>
  /\ UNCHANGED <<devices, device_transactions, purchase_order_devices, quantity_vars,
                 last, sales_order_devices, transactions, order_vars, handlers>>

ScanNext ==
  \/ InsertDevice("cellular", "u1", "in_stock")
  \/ \E value \in Identifiers : setCurrentIdentifier(value)
  \/ \E identifier \in Digits15 : removeDevice(identifier)
  \/ \E k \in 1 .. MaxScans : handleIdentifierScan(k)
  \/ \E k \in 1 .. MaxScans : ScanDeviceChecked(k)
  \/ \E k \in 1 .. MaxScans, succes \in BOOLEAN : ScanIMEIFetched(k, succes)
  \/ \E k \in 1 .. MaxScans : ScanConfigLoaded(k)

\* The scan field of AddPurchaseOrderDevices of one client, while devices are
\* booked in elsewhere.
ScanSpec == Init /\ [][ScanNext]_vars

\* ------------------------------------------------------ device submissions
\* supabase.auth.getUser() in each client.
user_of == [c1 |-> "u1", c2 |-> "a1"]

\* identifier.slice(0, 8) of a 15-digit identifier of the model.
tacCode(identifier) == "00000000"

\* NOT NULL of tac_codes: tac_code, manufacturer and model_name.
tac_codes_not_null(row) ==
  row.tac_code # NULL /\ row.manufacturer # NULL /\ row.model_name # NULL

\* CREATE UNIQUE INDEX idx_tac_codes_tac ON tac_codes(tac_code).
idx_tac_codes_tac(row) == \A r \in tac_codes : r.tac_code # row.tac_code

\* A handler that returned: setError(error), NULL when it reported none;
\* identifier is the IMEI it was working on.
Returned(h, identifier, message) ==
  [pc |-> "done", component |-> h.component, identifier |-> identifier,
   error |-> message]

\* The device entry a handler is working on.
Entry(h) == h.entries[h.i]

\* The steps of a handler that change nothing but the handler.
OnlyHandlers ==
  UNCHANGED <<devices, device_transactions, purchase_order_devices, quantity_vars, last,
              sales_order_devices, transactions, order_vars, scan_vars>>

\* AddDeviceModal.handleSubmit up to the select on tac_codes (cellular) or
\* the insert (serial); the manufacturer picked in the form exists.
AddDeviceModal_handleSubmit(c, t, identifier, status) ==
  /\ handlers[c].pc \in {"none", "done"}
  /\ LET h == [component |-> "AddDeviceModal", table |-> t, status |-> status,
               entries |-> <<[identifier |-> identifier, type |-> t]>>, i |-> 1]
     IN handlers' = [handlers EXCEPT ![c] =
          IF t = "cellular" /\ ~is_15_digits(identifier)
          THEN Returned(h, identifier, "IMEI must be exactly 15 digits")
          ELSE [pc |-> IF t = "cellular" THEN "select tac_codes" ELSE "insert device"]
               @@ h]
  /\ OnlyHandlers

\* AddPurchaseOrderDevices.handleSubmit with the entries of the client's
\* list, up to the insert into purchase_order_devices_planned.
AddPurchaseOrderDevices_handleSubmit(c, entries) ==
  /\ handlers[c].pc \in {"none", "done"}
  /\ LET h == [component |-> "AddPurchaseOrderDevices", table |-> "cellular",
               status |-> "in_stock", entries |-> entries, i |-> 1]
     IN handlers' = [handlers EXCEPT ![c] =
          IF Len(entries) = 0
          THEN Returned(h, NULL, "Please add at least one device")
          ELSE [pc |-> "insert planned"] @@ h]
  /\ OnlyHandlers

\* The insert into purchase_order_devices_planned returns, with an error or
\* without; the table is not part of the model.
PlannedInserted(c, plannedError) ==
  /\ handlers[c].pc = "insert planned"
  /\ handlers' = [handlers EXCEPT ![c] =
       IF plannedError THEN Returned(@, NULL, "plannedError")
       ELSE [@ EXCEPT !.pc = "checkDeviceExists"]]
  /\ OnlyHandlers

\* await checkDeviceExists(device.identifier, 'cellular') returns in the loop
\* of AddPurchaseOrderDevices.handleSubmit.
DeviceChecked(c) ==
  /\ handlers[c].pc = "checkDeviceExists"
  /\ handlers' = [handlers EXCEPT ![c] =
       IF checkDeviceExists(Entry(@).identifier, "cellular")
       THEN Returned(@, Entry(@).identifier, "Device with IMEI already exists in the system")
       ELSE [@ EXCEPT !.pc = "select tac_codes"]]
  /\ OnlyHandlers

\* The select on tac_codes by tac_code returns, with a row or with none.
TacSelected(c) ==
  /\ handlers[c].pc = "select tac_codes"
  /\ handlers' = [handlers EXCEPT ![c].pc =
       IF \E r \in tac_codes : r.tac_code = tacCode(Entry(handlers[c]).identifier)
       THEN "insert device" ELSE "insert tac_codes"]
  /\ OnlyHandlers

\* The insert into tac_codes returns.  AddPurchaseOrderDevices names the
\* manufacturer, AddDeviceModal sends manufacturer_id in its place.
TacInserted(c) ==
  /\ handlers[c].pc = "insert tac_codes"
  /\ LET h == handlers[c]
         row == [tac_code |-> tacCode(Entry(h).identifier),
                 manufacturer |-> IF h.component = "AddPurchaseOrderDevices"
                                  THEN "brand" ELSE NULL,
                 model_name |-> "model"]
         ok == tac_codes_not_null(row) /\ idx_tac_codes_tac(row)
     IN /\ tac_codes' = IF ok THEN tac_codes \cup {row} ELSE tac_codes
        /\ handlers' = [handlers EXCEPT ![c] =
             IF ok THEN [@ EXCEPT !.pc = "insert device"]
             ELSE Returned(@, Entry(@).identifier, "createTacError")]
  /\ UNCHANGED <<devices, device_transactions, purchase_order_devices, quantity_vars,
                 last, sales_order_devices, transactions, sales_orders, scan_vars>>

\* The insert into cellular_devices / serial_devices returns: with an error
\* the handler reports it; without, AddDeviceModal is done and
\* AddPurchaseOrderDevices goes on to link the device it created.
DeviceInserted(c) ==
  /\ handlers[c].pc = "insert device"
  /\ LET h == handlers[c]
     IN /\ InsertDeviceRow(h.table, user_of[c], h.status, Entry(h).identifier)
        /\ handlers' = [handlers EXCEPT ![c] =
             IF last'.outcome # "committed"
             THEN Returned(h, Entry(h).identifier, "deviceError")
             ELSE IF h.component = "AddDeviceModal"
             THEN Returned(h, Entry(h).identifier, NULL)
             ELSE [newDevice |-> last'.id] @@ [h EXCEPT !.pc = "insert link"]]
  /\ UNCHANGED scan_vars

\* The insert into purchase_order_devices returns: the loop goes on with the
\* next entry, or the handler is done.
LinkInserted(c) ==
  /\ handlers[c].pc = "insert link"
  /\ LET h == handlers[c]
     IN /\ InsertPurchaseOrderDeviceRow(user_of[c], h.newDevice, NULL)
        /\ handlers' = [handlers EXCEPT ![c] =
             IF last'.outcome # "committed"
             THEN Returned(h, Entry(h).identifier, "linkError")
             ELSE IF h.i < Len(h.entries)
             THEN [h EXCEPT !.pc = "checkDeviceExists", !.i = @ + 1]
             ELSE Returned(h, Entry(h).identifier, NULL)]
  /\ UNCHANGED scan_vars

\* The lists of entries a client submits.
EntryLists ==
  {<<>>} \cup {<<[identifier |-> a, type |-> "cellular"]>> : a \in Digits15}
  \cup {<<[identifier |-> a, type |-> "cellular"], [identifier |-> b, type |-> "cellular"]>> :
          a \in Digits15, b \in Digits15}

SubmitNext ==
  \/ \E c \in Clients, t \in Tables, identifier \in Identifiers :
       AddDeviceModal_handleSubmit(c, t, identifier, "in_stock")
  \/ \E c \in Clients, entries \in EntryLists :
       AddPurchaseOrderDevices_handleSubmit(c, entries)
  \/ \E c \in Clients, plannedError \in BOOLEAN : PlannedInserted(c, plannedError)
  \/ \E c \in Clients : DeviceChecked(c)
  \/ \E c \in Clients : TacSelected(c)
  \/ \E c \in Clients : TacInserted(c)
  \/ \E c \in Clients : DeviceInserted(c)
  \/ \E c \in Clients : LinkInserted(c)

\* Devices booked in by two clients at once, through AddDeviceModal and
\* through AddPurchaseOrderDevices.
SubmitSpec == Init /\ [][SubmitNext]_vars

\* -------------------------------------------------------- CreateSalesOrder
\* Text is a sequence of characters, so that padding, parsing and the order
\* of text are computed on the characters.
DigitChars == <<"0", "1", "2", "3", "4", "5", "6", "7", "8", "9">>

\* The value of a digit character.
digit(ch) == CHOOSE d \in 0 .. 9 : DigitChars[d + 1] = ch

\* String(n) of a number n >= 0.
RECURSIVE String(_)
String(n) == IF n < 10 THEN <<DigitChars[n + 1]>>
             ELSE String(n \div 10) \o <<DigitChars[(n % 10) + 1]>>

\* text.padStart(targetLength, ch): longer text is left as it is.
RECURSIVE padStart(_, _, _)
padStart(text, targetLength, ch) ==
  IF Len(text) >= targetLength THEN text ELSE padStart(<<ch>> \o text, targetLength, ch)

\* parseInt(text) of text that is all digits.
RECURSIVE parseInt(_)
parseInt(text) ==
  IF Len(text) = 0 THEN 0
  ELSE 10 * parseInt(SubSeq(text, 1, Len(text) - 1)) + digit(text[Len(text)])

\* text.split('-')[1]: the part between the first '-' and the next one.
split_1(text) ==
  LET dashes == {i \in DOMAIN text : text[i] = "-"}
      first == CHOOSE i \in dashes : \A j \in dashes : i <= j
      later == {i \in dashes : i > first}
      next == IF later = {} THEN Len(text) + 1
              ELSE CHOOSE i \in later : \A j \in later : i <= j
  IN SubSeq(text, first + 1, next - 1)

\* The characters of order numbers in the order of their codes.
CharOrder == <<"-">> \o DigitChars \o <<"O", "S">>

\* a < b in the order of text: character by character, a prefix first.
RECURSIVE text_less(_, _)
text_less(a, b) ==
  IF Len(b) = 0 THEN FALSE
  ELSE IF Len(a) = 0 THEN TRUE
  ELSE IF a[1] # b[1]
  THEN (CHOOSE i \in DOMAIN CharOrder : CharOrder[i] = a[1])
       < (CHOOSE i \in DOMAIN CharOrder : CharOrder[i] = b[1])
  ELSE text_less(Tail(a), Tail(b))

\* `SO-${String(newOrderNumber).padStart(6, '0')}`.
orderNumber(newOrderNumber) == <<"S", "O", "-">> \o padStart(String(newOrderNumber), 6, "0")

\* .select('order_number').order('order_number', { ascending: false }).limit(1):
\* the rows returned, at most one.
lastOrder(orders) ==
  {r \in orders : \A q \in orders : ~text_less(r.order_number, q.order_number)}

\* unique_order_number for a column without its UNIQUE constraint.
unique_order_number_dropped(orders, order_number) == TRUE

\* order_number TEXT NOT NULL UNIQUE.
unique_order_number(orders, order_number) ==
  \A r \in orders : r.order_number # order_number

\* CreateSalesOrder.handleSubmit up to the select of the last order number.
CreateSalesOrder_handleSubmit(c) ==
  /\ handlers[c].pc \in {"none", "done"}
  /\ handlers' = [handlers EXCEPT ![c] =
       [pc |-> "select sales_orders", component |-> "CreateSalesOrder"]]
  /\ OnlyHandlers

\* The select returns and the handler makes the new order number.
OrderSelected(c) ==
  /\ handlers[c].pc = "select sales_orders"
  /\ LET newOrderNumber ==
           IF lastOrder(sales_orders) # {}
           THEN parseInt(split_1((CHOOSE r \in lastOrder(sales_orders) : TRUE)
                                   .order_number)) + 1
           ELSE 1
     IN handlers' = [handlers EXCEPT ![c] =
          [pc |-> "insert sales_orders", component |-> "CreateSalesOrder",
           orderNumber |-> orderNumber(newOrderNumber),
           lastOrder |-> lastOrder(sales_orders)]]
  /\ OnlyHandlers

\* The insert into sales_orders returns: "Users can create sales orders"
\* lets every authenticated user insert; the customer of the form exists.
OrderInserted(c) ==
  /\ handlers[c].pc = "insert sales_orders"
  /\ Cardinality(sales_orders) < MaxOrders
  /\ LET h == handlers[c]
         row == [id |-> "o" \o ToString(Cardinality(sales_orders) + 1),
                 order_number |-> h.orderNumber, status |-> "draft",
                 created_by |-> user_of[c], updated_by |-> user_of[c]]
         ok == unique_order_number(sales_orders, row.order_number)
     IN /\ sales_orders' = IF ok THEN sales_orders \cup {row} ELSE sales_orders
        /\ last' = Statement("insert_order", NULL, row.id, user_of[c],
                             IF ok THEN Running(<<>>) ELSE Violated, NoRow, NoRow)
        /\ handlers' = [handlers EXCEPT ![c] =
             [lastOrder |-> h.lastOrder, orderNumber |-> h.orderNumber]
             @@ Returned(h, NULL, IF ok THEN NULL ELSE "createError")]
  /\ UNCHANGED <<devices, device_transactions, purchase_order_devices, quantity_vars,
                 sales_order_devices, transactions, tac_codes, scan_vars>>

OrderNext ==
  \/ \E c \in Clients : CreateSalesOrder_handleSubmit(c)
  \/ \E c \in Clients : OrderSelected(c)
  \/ \E c \in Clients : OrderInserted(c)

\* Sales orders created by two clients at once.
OrderSpec == Init /\ [][OrderNext]_vars

\* ---------------------------------------------------- AddSalesOrderDevices
\* The column of a link row that references a device of table t.
device_column(r, t) == IF t = "cellular" THEN r.cellular_device_id ELSE r.serial_device_id

\* salesOrderDevices: selectedDevices.map(device => ({...})), with the ids
\* the table gives the rows.
salesOrderDevices(selectedDevices, uid) ==
  [i \in DOMAIN selectedDevices |->
     [id |-> "s" \o ToString(Cardinality(sales_order_devices) + i),
      sales_order_id |-> "so1",
      cellular_device_id |-> IF selectedDevices[i].type = "cellular"
                             THEN selectedDevices[i].id ELSE NULL,
      serial_device_id |-> IF selectedDevices[i].type = "serial"
                           THEN selectedDevices[i].id ELSE NULL,
      created_by |-> uid, updated_by |-> uid]]

\* What a handler that returned leaves for the properties: the tables as
\* they are when it returns.
AtReturn(h, identifier, message) ==
  [at |-> [devices |-> devices', ledger |-> device_transactions',
           sales_links |-> sales_order_devices'],
   entries |-> h.entries, started |-> h.started]
  @@ Returned(h, identifier, message)

\* AddSalesOrderDevices.handleSubmit with the devices selected from the
\* list of devices in stock, up to the insert into sales_order_devices.
AddSalesOrderDevices_handleSubmit(c, selectedDevices) ==
  /\ handlers[c].pc \in {"none", "done"}
  /\ \A i \in DOMAIN selectedDevices :
       /\ selectedDevices[i].id \in DOMAIN devices[selectedDevices[i].type]
       /\ devices[selectedDevices[i].type][selectedDevices[i].id].status = "in_stock"
  /\ LET h == [component |-> "AddSalesOrderDevices", entries |-> selectedDevices,
               i |-> 1,
               started |-> [ledger |-> device_transactions,
                            sales_links |-> sales_order_devices]]
     IN handlers' = [handlers EXCEPT ![c] =
          IF Len(selectedDevices) = 0
          THEN [at |-> [devices |-> devices, ledger |-> device_transactions,
                        sales_links |-> sales_order_devices],
                entries |-> h.entries, started |-> h.started]
               @@ Returned(h, NULL, "Please select at least one device")
          ELSE [pc |-> "insert sales_order_devices"] @@ h]
  /\ OnlyHandlers

\* The insert of all link rows in one statement returns: the request failed
\* on its way (requestError), a row was refused, or all rows are there.
SalesOrderDevicesInserted(c, requestError) ==
  /\ handlers[c].pc = "insert sales_order_devices"
  /\ Cardinality(sales_order_devices) + Len(handlers[c].entries) <= MaxLinks
  /\ LET h == handlers[c]
         rows == salesOrderDevices(h.entries, user_of[c])
         ok == /\ ~requestError
               /\ \A i \in DOMAIN rows :
                    one_device_type(rows[i]) /\ purchase_order_devices_fkey(rows[i], devices)
     IN /\ sales_order_devices' =
             IF ok THEN sales_order_devices \cup {rows[i] : i \in DOMAIN rows}
             ELSE sales_order_devices
        /\ last' = Statement("sales_link", NULL, rows[1].id, user_of[c],
                             IF ok THEN Running(<<>>) ELSE Violated, NoRow, NoRow)
        /\ UNCHANGED <<devices, device_transactions>>
        /\ handlers' = [handlers EXCEPT ![c] =
             IF ok THEN [h EXCEPT !.pc = "update device"]
             ELSE AtReturn(h, NULL, "insertError")]
  /\ UNCHANGED <<purchase_order_devices, quantity_vars, transactions, order_vars,
                 scan_vars>>

\* The update of the status of one selected device returns: the request
\* failed on its way (requestError), or the UPDATE ran.  Where no policy lets
\* the user update the row, the UPDATE changes no row and reports no error.
DeviceUpdated(c, requestError) ==
  /\ handlers[c].pc = "update device"
  /\ LET h == handlers[c]
         t == Entry(h).type
         id == Entry(h).id
         old == devices[t][id]
         next(message) ==
           IF message # NULL THEN AtReturn(h, id, message)
           ELSE IF h.i < Len(h.entries) THEN [h EXCEPT !.i = @ + 1]
           ELSE AtReturn(h, id, NULL)
     IN IF requestError \/ ~can_update_device(t, user_of[c])
        THEN /\ UNCHANGED <<devices, device_transactions, purchase_order_devices,
                            quantity_vars, last, sales_order_devices, transactions,
                            order_vars>>
             /\ handlers' = [handlers EXCEPT ![c] =
                  next(IF requestError THEN "updateError" ELSE NULL)]
        ELSE /\ UpdateDeviceRow(t, id, user_of[c], "sold",
                                <<old.qc_status, old.qc_comments>>, old.repair_completed)
             /\ handlers' = [handlers EXCEPT ![c] =
                  next(IF last'.outcome = "committed" THEN NULL ELSE "updateError")]
  /\ UNCHANGED scan_vars

\* The lists of devices a client selects: one device or two, in either order.
Selections ==
  LET all == {[id |-> id, type |-> t] : id \in AllIds, t \in Tables}
      some == {d \in all : d.id \in DOMAIN devices[d.type]}
  IN {<<>>} \cup {<<d>> : d \in some}
     \cup {<<p[1], p[2]>> : p \in {q \in some \X some : q[1] # q[2]}}

SalesNext ==
  \/ \E t \in Tables : InsertDevice(t, "u1", "in_stock")
  \/ \E c \in Clients, selectedDevices \in Selections :
       AddSalesOrderDevices_handleSubmit(c, selectedDevices)
  \/ \E c \in Clients, requestError \in BOOLEAN : SalesOrderDevicesInserted(c, requestError)
  \/ \E c \in Clients, requestError \in BOOLEAN : DeviceUpdated(c, requestError)

\* Devices added to a sales order by a user and by an admin at once.
SalesSpec == Init /\ [][SalesNext]_vars

\* ------------------------------------------------------------- properties
\* The rows the last statement appended to the ledger of table t.
Appended(t) ==
  SubSeq(device_transactions[t], Len(last.ledger[t]) + 1, Len(device_transactions[t]))

\* The ledger of table t still starts with the rows it had before the last statement.
Kept(t) ==
  /\ Len(device_transactions[t]) >= Len(last.ledger[t])
  /\ SubSeq(device_transactions[t], 1, Len(last.ledger[t])) = last.ledger[t]

RowsOf(rows, id) == SelectSeq(rows, LAMBDA r : r.device_id = id)

OtherTable(t) == CHOOSE u \in Tables : u # t

Committed(op) == last.op = op /\ last.outcome = "committed"

\* The field groups of a device row that an update changed.
StatusChanged == last.old.status # last.new.status
QcChanged == last.old.qc_status # last.new.qc_status
RepairChanged == last.old.repair_completed # last.new.repair_completed

\* The status-change rows among the rows the last update appended.
StatusRows ==
  SelectSeq(Appended(last.table),
            LAMBDA r : r.previous_status = last.old.status
                       /\ r.new_status = last.new.status)

\* C1: inserting a device row (cellular or serial) appends exactly one ledger
\* row for that device, with previous status null and new status the device's
\* status, and right after the insert it is the device's only ledger row.
C1_InsertAppendsOneRow ==
  last.op = "insert" =>
    LET t == last.table
        id == last.id
    IN /\ last.outcome = "committed"
       /\ id \in DOMAIN devices[t]
       /\ Kept(t)
       /\ Len(Appended(t)) = 1
       /\ Appended(t)[1].device_id = id
       /\ Appended(t)[1].previous_status = NULL
       /\ Appended(t)[1].new_status = devices[t][id].status
       /\ Len(RowsOf(device_transactions[t], id)) = 1
       /\ device_transactions[OtherTable(t)] = last.ledger[OtherTable(t)]
       /\ RowsOf(device_transactions[OtherTable(t)], id) = <<>>

\* A device was inserted into a table whose ledger already had rows.
C1_Witness ==
  /\ Committed("insert")
  /\ Len(last.ledger[last.table]) > 0
  /\ last.new.status = "quarantine"

\* C2: an update that changes the status of a device (cellular or serial)
\* but neither its QC outcome nor its repair-completed flag appends exactly
\* one ledger row for it, from the old status to the new status.
C2_StatusOnlyAppendsOneRow ==
  (Committed("update") /\ StatusChanged /\ ~QcChanged /\ ~RepairChanged) =>
    /\ Kept(last.table)
    /\ Len(Appended(last.table)) = 1
    /\ Appended(last.table)[1].device_id = last.id
    /\ Appended(last.table)[1].previous_status = last.old.status
    /\ Appended(last.table)[1].new_status = last.new.status

\* C3: an update that changes status, QC outcome and repair-completed flag
\* together appends exactly three ledger rows for the device: one status-change
\* row, one row of kind qc and one row of kind repair.
C3_AllThreeAppendThreeRows ==
  (Committed("update") /\ StatusChanged /\ QcChanged /\ RepairChanged) =>
    LET rows == Appended(last.table)
    IN /\ Len(rows) = 3
       /\ \A i \in 1 .. Len(rows) : rows[i].device_id = last.id
       /\ Len(StatusRows) = 1
       /\ \E i \in 1 .. Len(rows) :
            rows[i].transaction_type = "qc" /\ rows[i].previous_status = rows[i].new_status
       /\ \E i \in 1 .. Len(rows) :
            rows[i].transaction_type = "repair"
            /\ rows[i].previous_status = rows[i].new_status

\* The number of field groups the last update changed.
ChangedGroups ==
  (IF StatusChanged THEN 1 ELSE 0) + (IF QcChanged THEN 1 ELSE 0)
  + (IF RepairChanged THEN 1 ELSE 0)

\* C4: a device update appends as many ledger rows as there are field groups
\* among status, QC outcome and repair-completed flag whose value differs
\* between the old and the new row; none when none differs, and two rows of
\* kind qc when status becomes qc_required and QC outcome becomes pass.
C4_RowsEqualChangedGroups ==
  Committed("update") =>
    LET rows == Appended(last.table)
    IN /\ Len(rows) = ChangedGroups
       /\ (last.new.status = "qc_required" /\ last.new.qc_status = "pass"
           /\ StatusChanged /\ QcChanged /\ ~RepairChanged)
          => \A i \in 1 .. Len(rows) : rows[i].transaction_type = "qc"

\* The kind the ledger is to give a status change, by new status.
KindOfStatus ==
  [in_stock |-> "transfer", sold |-> "sale", returned |-> "return_in",
   quarantine |-> "transfer", repair |-> "repair", qc_required |-> "qc",
   qc_failed |-> "transfer"]

\* C5: the kind of a status-change ledger row is a function of the new status
\* alone: sale for sold, return_in for returned, repair for repair, qc for
\* qc_required and transfer for in_stock, quarantine and qc_failed.
C5_KindByNewStatus ==
  (Committed("update") /\ StatusChanged) =>
    /\ Len(StatusRows) >= 1
    /\ \A i \in 1 .. Len(StatusRows) :
         StatusRows[i].transaction_type = KindOfStatus[last.new.status]

\* A sold device was taken back.
C5_Witness ==
  /\ Committed("update")
  /\ last.old.status = "sold"
  /\ last.new.status = "returned"
  /\ Len(StatusRows) >= 1

\* The link rows that reference device id of table t.
LinksOf(t, id, links) ==
  {r \in links : (IF t = "cellular" THEN r.cellular_device_id ELSE r.serial_device_id) = id}

\* C6: the ledger row written at device creation has kind purchase exactly
\* when a purchase_order_devices row referencing the device exists at the
\* moment of the insert, and kind transfer otherwise.
C6_CreationKind ==
  Committed("insert") =>
    LET r == device_transactions[last.table][Len(device_transactions[last.table])]
    IN /\ r.device_id = last.id
       /\ r.transaction_type \in {"purchase", "transfer"}
       /\ r.transaction_type = "purchase" <=> LinksOf(last.table, last.id, last.links) # {}

\* A device was created while a link row (of another device) existed.
C6_Witness ==
  /\ Committed("insert")
  /\ last.links # {}
  /\ device_transactions[last.table][Len(device_transactions[last.table])].transaction_type
       = "transfer"

\* C7: when a ledger insert caused by a device insert or update fails, the
\* whole change is rejected: the device tables and the ledger tables are as
\* they were before the statement.
C7_FailedInsertRejectsChange ==
  (last.op \in {"insert", "update"} /\ last.failed) =>
    /\ last.outcome = "rejected"
    /\ devices = last.devices
    /\ device_transactions = last.ledger

\* An update of a device that has ledger rows failed in a trigger.
C7_Witness ==
  /\ last.op = "update"
  /\ last.failed
  /\ last.outcome = "rejected"
  /\ Len(device_transactions[last.table]) >= 2

Magnitude(n) == IF n < 0 THEN 0 - n ELSE n

\* Every row of the two quantity ledgers.
QuantityRows ==
  UNION {{quantity_transactions[k][i] : i \in 1 .. Len(quantity_transactions[k])} :
         k \in Kinds}

\* A call of fn_create_part_transaction or fn_create_accessory_transaction
\* that committed had arguments that meet cond, and one that raised left the quantity ledgers as they were.
CallChecked(cond(_, _, _)) ==
  /\ Committed("call_quantity") =>
       cond(last.new.qty, last.new.prev_qty, last.new.new_qty)
  /\ (last.op = "call_quantity" /\ last.outcome = "rejected") =>
       quantity_transactions = last.quantity_ledger

\* C8 as stated: every quantity ledger row has |new - previous| = quantity and
\* new >= 0, and a call that violates either raises and adds no row.
C8_QuantityEqualsDifference ==
  /\ \A r \in QuantityRows :
       /\ Magnitude(r.new_quantity - r.previous_quantity) = r.quantity
       /\ r.new_quantity >= 0
  /\ CallChecked(LAMBDA q, p, n : Magnitude(n - p) = q /\ n >= 0)

\* C8, amended: every quantity ledger row has |new - previous| = |quantity|
\* and new >= 0, and a call that violates either raises and adds no row.
C8_MagnitudeEqualsDifference ==
  /\ \A r \in QuantityRows :
       /\ Magnitude(r.new_quantity - r.previous_quantity) = Magnitude(r.quantity)
       /\ r.new_quantity >= 0
  /\ CallChecked(LAMBDA q, p, n : Magnitude(n - p) = Magnitude(q) /\ n >= 0)

\* A call was refused while the ledger holds a row with a negative quantity.
C8_Witness ==
  /\ last.op = "call_quantity"
  /\ last.outcome = "rejected"
  /\ \E r \in QuantityRows : r.quantity < 0

\* C9: ledger rows are append-only: a row that exists stays, in its place and
\* with the same device, kind, statuses, note and acting user, whatever is
\* done next.
C9_AppendOnly ==
  [][\A t \in Tables :
       /\ Len(device_transactions'[t]) >= Len(device_transactions[t])
       /\ SubSeq(device_transactions'[t], 1, Len(device_transactions[t]))
            = device_transactions[t]]_vars

\* Rows were added to a ledger that already had rows.
C9_Witness ==
  \E t \in Tables :
    /\ Len(last.ledger[t]) >= 2
    /\ Len(device_transactions[t]) > Len(last.ledger[t])
    /\ Kept(t)

\* C10: every device ledger row is written as the consequence of a device
\* insert or update: no other statement adds a row to a device ledger.
C10_OnlyDeviceChangesWrite ==
  (device_transactions # last.ledger) => last.op \in {"insert", "update"}

\* The rows of the given kind among the rows the last update appended that
\* are not status-change rows: their two status columns are equal.
SameStatusRows(kind) ==
  SelectSeq(Appended(last.table),
            LAMBDA r : r.transaction_type = kind /\ r.previous_status = r.new_status)

\* C11: the QC-outcome row an update appends has kind qc and has previous and
\* new status both equal to the device's status after the update, also when
\* the same update changes the status.
C11_QcRowCarriesCurrentStatus ==
  (Committed("update") /\ QcChanged /\ last.new.qc_status # NULL) =>
    /\ Len(SameStatusRows("qc")) = 1
    /\ SameStatusRows("qc")[1].device_id = last.id
    /\ SameStatusRows("qc")[1].new_status = devices[last.table][last.id].status
    /\ SameStatusRows("qc")[1].new_status # last.new.qc_status

\* An update set a QC outcome and changed the status with it.
C11_Witness ==
  /\ Committed("update")
  /\ QcChanged
  /\ StatusChanged
  /\ last.new.qc_status = "fail"
  /\ Len(SameStatusRows("qc")) = 1

\* C12: an update that changes the repair-completed flag appends one row of
\* kind repair with previous and new status both the device's status after
\* the update, noted 'Repair completed' when the flag became true and
\* 'Repair started' when it became false.
C12_RepairRow ==
  (Committed("update") /\ RepairChanged) =>
    /\ Len(SameStatusRows("repair")) = 1
    /\ SameStatusRows("repair")[1].device_id = last.id
    /\ SameStatusRows("repair")[1].new_status = devices[last.table][last.id].status
    /\ SameStatusRows("repair")[1].notes =
         (IF last.new.repair_completed THEN "Repair completed" ELSE "Repair started")

\* An update reset the repair-completed flag while it changed the status.
C12_Witness ==
  /\ Committed("update")
  /\ RepairChanged
  /\ StatusChanged
  /\ ~last.new.repair_completed
  /\ Len(SameStatusRows("repair")) = 1

\* The ledgers are as they were before the last statement.
LedgersUnchanged ==
  /\ device_transactions = last.ledger
  /\ quantity_transactions = last.quantity_ledger

\* C13: a call of fn_create_cellular_transaction, fn_create_serial_transaction,
\* fn_create_part_transaction or fn_create_accessory_transaction with a null
\* id, kind, reference id or acting user fails and appends no row, and so
\* does a statement whose trigger calls one of them with a null auth.uid().
C13_NullArgumentsFail ==
  /\ (last.op \in {"call", "call_quantity"} /\ last.old.nulls # {}) =>
       last.outcome = "rejected" /\ LedgersUnchanged
  /\ (last.op = "update" /\ last.uid = NULL /\ has_status_change_trigger(last.table)) =>
       \/ last.outcome = "committed" /\ ~StatusChanged
       \/ last.outcome = "rejected" /\ LedgersUnchanged /\ devices = last.devices
  /\ (last.op = "update_item" /\ last.uid = NULL) =>
       \/ /\ last.outcome = "committed"
          /\ stock[last.table][last.id] = last.stock[last.table][last.id]
          /\ LedgersUnchanged
       \/ last.outcome = "rejected" /\ LedgersUnchanged /\ stock = last.stock

\* A call without acting user was refused while both kinds of ledger hold rows.
C13_Witness ==
  /\ last.op \in {"call", "call_quantity"}
  /\ last.old.nulls = {"user_id"}
  /\ last.outcome = "rejected"
  /\ TotalLedger > 0
  /\ TotalQuantityLedger > 0

\* A session that may update rows of table t: an admin where a policy lets
\* admins update and the status trigger needs an acting user, the service
\* role otherwise.
UpdaterOf(t) == IF can_update_device(t, "a1") THEN "a1" ELSE NULL

\* The update of device id of table t to status s alone, accepted, taking
\* effect and recorded with the old and the new status.
StatusUpdateRecorded(t, id, s) ==
  /\ UpdateDevice(t, id, UpdaterOf(t), s,
                  <<devices[t][id].qc_status, devices[t][id].qc_comments>>,
                  devices[t][id].repair_completed)
  /\ last'.outcome = "committed"
  /\ devices'[t][id].status = s
  /\ Len(device_transactions'[t]) > Len(device_transactions[t])
  /\ \A i \in Len(device_transactions[t]) + 1 .. Len(device_transactions'[t]) :
       /\ device_transactions'[t][i].device_id = id
       /\ device_transactions'[t][i].previous_status = devices[t][id].status
       /\ device_transactions'[t][i].new_status = s

\* C14: status is not constrained to a transition graph: whatever status a
\* device has, an update to any other status is accepted, takes effect and
\* is recorded; no committed status change is altered.
C14_AnyStatusToAnyStatus ==
  /\ TotalLedger < MaxLedger =>
       \A t \in Tables : \A id \in DOMAIN devices[t] :
         \A s \in device_status \ {devices[t][id].status} :
           ENABLED StatusUpdateRecorded(t, id, s)
  /\ (Committed("update") /\ StatusChanged) =>
       /\ devices[last.table][last.id].status = last.new.status
       /\ Len(StatusRows) >= 1

\* A sold device went back in stock.
C14_Witness ==
  /\ Committed("update")
  /\ last.old.status = "sold"
  /\ last.new.status = "in_stock"
  /\ devices[last.table][last.id].status = "in_stock"
  /\ Len(StatusRows) >= 1

C16_OnlyTheDeviceChanges ==
  last.op \in {"insert", "update"} =>
    /\ \A t \in Tables :
         /\ \A id \in DOMAIN last.devices[t] :
              /\ id \in DOMAIN devices[t]
              /\ (t # last.table \/ id # last.id) => devices[t][id] = last.devices[t][id]
         /\ DOMAIN devices[t] \subseteq
              DOMAIN last.devices[t] \cup (IF t = last.table THEN {last.id} ELSE {})
         /\ Kept(t)
         /\ \A i \in 1 .. Len(Appended(t)) :
              t = last.table /\ Appended(t)[i].device_id = last.id
    /\ last.op = "insert" => Len(Appended(last.table)) = 1
    /\ purchase_order_devices = last.links
    /\ sales_order_devices = last.sales_links
    /\ stock = last.stock
    /\ quantity_transactions = last.quantity_ledger

\* A device was updated while another device of the same table had its own
\* ledger rows.
C16_Witness ==
  /\ Committed("update")
  /\ Len(Appended(last.table)) >= 1
  /\ \E id \in DOMAIN devices[last.table] :
       /\ id # last.id
       /\ Len(RowsOf(last.ledger[last.table], id)) >= 1

\* The positions of the ledger rows of the device of the last statement,
\* in the order the rows were appended.
AppendOrder ==
  LET sel == rows_of_device(last.table, last.id)
  IN [i \in 1 .. Cardinality(sel) |->
        CHOOSE p \in sel : Cardinality({q \in sel : q < p}) = i - 1]

\* C17: the history read of a device returns exactly the ledger rows of that
\* device, each with the acting user's full name, newest first: in the
\* reverse of the order the rows were appended in, rows of one update
\* included.
C17_HistoryNewestFirst ==
  last.op = "history" =>
    /\ Len(last.result) = Len(AppendOrder)
    /\ \A i \in DOMAIN last.result :
         LET row == device_transactions[last.table][last.result[i].id]
         IN /\ last.result[i].id = AppendOrder[Len(AppendOrder) + 1 - i]
            /\ row.device_id = last.id
            /\ last.result[i].user = {[full_name |-> full_name[row.created_by]]}

\* The note a status-change row is to carry, from the row after the update.
NoteOfStatus(new) ==
  CASE new.status = "qc_required" ->
         (IF new.qc_status = NULL THEN "Pending QC"
          ELSE "QC " \o new.qc_status \o ": "
               \o (IF new.qc_comments = NULL THEN "" ELSE new.qc_comments))
    [] new.status = "repair" ->
         (IF new.repair_completed THEN "Repair completed" ELSE "Repair required")
    [] OTHER -> NULL

\* C18: the note of a status-change row depends only on the new row: for
\* qc_required 'QC <outcome>: <comments>' or 'Pending QC', for repair
\* 'Repair completed' or 'Repair required', null for every other status.
C18_StatusNote ==
  (Committed("update") /\ StatusChanged) =>
    \A i \in DOMAIN StatusRows : StatusRows[i].notes = NoteOfStatus(last.new)

\* C19: every row linking a device to a purchase order or a sales order
\* references exactly one device kind, a cellular or a serial device; an
\* insert that does not is rejected and adds no row.
C19_OneDeviceType ==
  /\ \A r \in purchase_order_devices \cup sales_order_devices :
       (r.cellular_device_id = NULL) # (r.serial_device_id = NULL)
  /\ (last.op \in {"link", "sales_link"} /\ last.outcome = "rejected") =>
       /\ purchase_order_devices = last.links
       /\ sales_order_devices = last.sales_links

\* A sales order link was refused while a purchase order link exists and
\* devices of both kinds exist.
C19_Witness ==
  /\ last.op = "sales_link"
  /\ last.outcome = "rejected"
  /\ purchase_order_devices # {}
  /\ \A t \in Tables : DOMAIN devices[t] # {}

\* The rows the last statement appended to the quantity ledger of kind k.
AppendedQuantity(k) ==
  SubSeq(quantity_transactions[k], Len(last.quantity_ledger[k]) + 1,
         Len(quantity_transactions[k]))

\* C20: an update of a part or accessory that changes its quantity appends
\* exactly one quantity-ledger row with the old and the new quantity and
\* quantity = |new - old|, of kind purchase on an increase and sale on a
\* decrease; an update that leaves the quantity unchanged appends no row.
C20_QuantityUpdateRow ==
  Committed("update_item") =>
    LET k == last.table
        old == last.stock[k][last.id]
        new == stock[k][last.id]
        rows == AppendedQuantity(k)
    IN /\ \A j \in Kinds :
            /\ Len(quantity_transactions[j]) >= Len(last.quantity_ledger[j])
            /\ SubSeq(quantity_transactions[j], 1, Len(last.quantity_ledger[j]))
                 = last.quantity_ledger[j]
            /\ j # k => quantity_transactions[j] = last.quantity_ledger[j]
       /\ old = new => rows = <<>>
       /\ old # new =>
            /\ Len(rows) = 1
            /\ rows[1].item_id = last.id
            /\ rows[1].previous_quantity = old
            /\ rows[1].new_quantity = new
            /\ rows[1].quantity = Magnitude(new - old)
            /\ rows[1].transaction_type = (IF new > old THEN "purchase" ELSE "sale")

\* The quantity of an item was lowered.
C20_Witness ==
  /\ Committed("update_item")
  /\ stock[last.table][last.id] < last.stock[last.table][last.id]
  /\ Len(AppendedQuantity(last.table)) = 1

\* C21: the list of scanned devices never holds two entries with the same
\* IMEI, whatever the order in which the scans start and their awaits
\* return, and a scan of an IMEI that the list holds reports 'This IMEI has
\* already been added to the list' and leaves the list unchanged.
C21_NoDuplicateEntries ==
  /\ \A i, j \in DOMAIN deviceEntries :
       i # j => deviceEntries[i].identifier # deviceEntries[j].identifier
  /\ \A k \in DOMAIN scans :
       (scans[k].pc = "done" /\ scans[k].listed /\ is_15_digits(scans[k].identifier)
        /\ scans[k].message \notin {"Device with this IMEI already exists in the system",
                                    "Invalid IMEI or device not found"})
         => /\ ~scans[k].appended
            /\ scans[k].message = "This IMEI has already been added to the list"

\* The cellular devices with the given IMEI in a state of the device tables.
WithImei(devs, imei) ==
  {id \in DOMAIN devs["cellular"] : devs["cellular"][id].identifier = imei}

NumberOf(order_number) == parseInt(SubSeq(order_number, 4, Len(order_number)))

\* The highest number among the orders, 0 when there is none.
Highest(orders) ==
  IF orders = {} THEN 0
  ELSE CHOOSE n \in {NumberOf(r.order_number) : r \in orders} :
         \A r \in orders : NumberOf(r.order_number) <= n

\* C23: CreateSalesOrder gives a new order the number SO- followed by the
\* highest existing number plus one and the status draft; no two sales
\* orders have the same order number, and of two creations that read the
\* same highest number one creates its order and the other reports an error
\* and creates nothing.
C23_OrderNumbers ==
  /\ \A r, q \in sales_orders : r.order_number = q.order_number => r = q
  /\ \A r \in sales_orders :
       /\ SubSeq(r.order_number, 1, 3) = <<"S", "O", "-">>
       /\ Len(r.order_number) = 9
       /\ r.status = "draft"
  /\ Committed("insert_order") =>
       /\ Cardinality(sales_orders) = Cardinality(last.orders) + 1
       /\ last.orders \subseteq sales_orders
       /\ \A r \in sales_orders \ last.orders :
            NumberOf(r.order_number) = Highest(last.orders) + 1
  /\ (last.op = "insert_order" /\ last.outcome = "rejected") =>
       sales_orders = last.orders
  /\ \A c, d \in Clients :
       (c # d /\ handlers[c].pc = "done" /\ handlers[d].pc = "done"
        /\ handlers[c].component = "CreateSalesOrder"
        /\ handlers[d].component = "CreateSalesOrder"
        /\ handlers[c].lastOrder = handlers[d].lastOrder)
         => /\ (handlers[c].error = NULL) # (handlers[d].error = NULL)
            /\ Cardinality({r \in sales_orders :
                              r.order_number = handlers[c].orderNumber}) = 1

\* Two creations read the same highest number, above zero; one created its
\* order and the other was refused.
C23_Witness ==
  /\ last.op = "insert_order"
  /\ last.outcome = "rejected"
  /\ handlers["c1"].pc = "done"
  /\ handlers["c2"].pc = "done"
  /\ handlers["c1"].lastOrder = handlers["c2"].lastOrder
  /\ handlers["c1"].lastOrder # {}
  /\ \E c \in Clients : handlers[c].error = "createError"
  /\ \E c \in Clients : handlers[c].error = NULL

\* The handlers of AddSalesOrderDevices that have returned.
SalesReturned ==
  {c \in Clients : handlers[c].pc = "done"
                   /\ handlers[c].component = "AddSalesOrderDevices"}

\* The ledger rows of device d written between the start and the return of
\* handler h.
Gained(h, d) ==
  RowsOf(SubSeq(h.at.ledger[d.type], Len(h.started.ledger[d.type]) + 1,
                Len(h.at.ledger[d.type])), d.id)

\* C24: when AddSalesOrderDevices.handleSubmit completes without reporting
\* an error, every selected device is linked to the sales order by one row
\* of sales_order_devices, has status sold and has gained exactly one ledger
\* row, from in_stock to sold, of kind sale.
C24_SubmitSellsDevices ==
  \A c \in SalesReturned :
    handlers[c].error = NULL =>
      \A i \in DOMAIN handlers[c].entries :
        LET h == handlers[c]
            d == h.entries[i]
        IN /\ Cardinality({r \in h.at.sales_links \ h.started.sales_links :
                             device_column(r, d.type) = d.id}) = 1
           /\ h.at.devices[d.type][d.id].status = "sold"
           /\ Len(Gained(h, d)) = 1
           /\ Gained(h, d)[1].previous_status = "in_stock"
           /\ Gained(h, d)[1].new_status = "sold"
           /\ Gained(h, d)[1].transaction_type = "sale"

\* C29: AddSalesOrderDevices.handleSubmit is all-or-nothing: when it reports
\* an error, at the insert of the link rows or at the update of a device, no
\* sales_order_devices row of the submission exists and no selected device
\* has had its status changed to sold by it.
C29_SubmitAllOrNothing ==
  \A c \in SalesReturned :
    handlers[c].error # NULL =>
      LET h == handlers[c]
      IN /\ \A r \in h.at.sales_links \ h.started.sales_links :
              r.created_by # user_of[c]
         /\ \A i \in DOMAIN h.entries :
              LET row == h.at.devices[h.entries[i].type][h.entries[i].id]
              IN ~(row.status = "sold" /\ row.updated_by = user_of[c])

\* The ledger rows of device id of table t, oldest first.
LedgerOf(t, id) == RowsOf(device_transactions[t], id)

\* C25: after any sequence of device creations and updates, the new status
\* of the ledger row appended last for a device is the status of the device.
C25_LastRowHasCurrentStatus ==
  \A t \in Tables : \A id \in DOMAIN devices[t] :
    /\ Len(LedgerOf(t, id)) >= 1
    /\ LedgerOf(t, id)[Len(LedgerOf(t, id))].new_status = devices[t][id].status

\* A device has changed its status and its QC outcome after its creation,
\* and its last ledger row is not a status-change row.
C25_Witness ==
  /\ Committed("update")
  /\ StatusChanged
  /\ QcChanged
  /\ Len(LedgerOf(last.table, last.id)) >= 3
  /\ LET r == LedgerOf(last.table, last.id)[Len(LedgerOf(last.table, last.id))]
     IN r.previous_status = r.new_status /\ r.new_status = last.new.status

\* The ledger rows of device id of table t form a chain.
Chained(t, id) ==
  \A i \in DOMAIN LedgerOf(t, id) :
    LedgerOf(t, id)[i].previous_status =
      IF i = 1 THEN NULL ELSE LedgerOf(t, id)[i - 1].new_status

\* C26: the ledger of each device, cellular or serial, is a chain: its first
\* row has previous status NULL and every later row has as previous status
\* the new status of the row appended just before it for the same device.
C26_LedgerIsChain ==
  \A t \in Tables : \A id \in DOMAIN devices[t] : Chained(t, id)

\* C27: an update that changes the QC outcome of a device from pass or fail
\* to NULL appends no QC-outcome row; an update that changes it from NULL to
\* a value, or from one value to the other, appends one.
C27_QcRowOnlyForValue ==
  (Committed("update") /\ QcChanged) =>
    Len(SameStatusRows("qc")) = (IF last.new.qc_status = NULL THEN 0 ELSE 1)

\* An update has cleared the QC outcome of a device that had passed QC.
C27_Witness ==
  /\ Committed("update")
  /\ last.old.qc_status = "pass"
  /\ last.new.qc_status = NULL
  /\ devices[last.table][last.id].qc_status = NULL
  /\ SameStatusRows("qc") = <<>>

\* The devices AddPurchaseOrderDevices.handleSubmit has created: those it has
\* linked to the purchase order and those it is about to link.
CreatedForPurchaseOrder ==
  {r.cellular_device_id : r \in purchase_order_devices}
  \cup {handlers[c].newDevice :
          c \in {b \in Clients : handlers[b].pc = "insert link"}}

====
